---- MODULE Spec2Model ----
(***************************************************************************)
(* sketch (src/aaa.go): approximates input images by randomly placed       *)
(* lines.  main() walks the numbered input files, sketch() runs the        *)
(* optimizer loop on one decoded frame and saves the result.               *)
(*                                                                         *)
(* Colours are 4-tuples <<R, G, B, A>>.  An image is a record              *)
(* [w, h, pix] whose pix maps <<x, y>> in (0..w-1) \X (0..h-1) to a colour.*)
(* Output files are assumed creatable (save never reaches log.Fatalln).    *)
(***************************************************************************)
EXTENDS Integers, Sequences, FiniteSets, TLC

VARIABLES
    iterLimit,    \* flag -iter
    frameStart,   \* flag -start
    frameLimit,   \* flag -framelimit
    lineLen,      \* flag -l
    palletize,    \* flag -p
    saveInterval, \* flag -save, in milliseconds (the flag is a float of seconds)
    statInterval, \* flag -stat, in milliseconds
    incrSaveNum,  \* global: number of the next incremental snapshot
    saveNum,      \* global: number of the next finished frame
    inputs,       \* the files input_NNN.png on disk, from number frameStart on
    written,      \* the files written by save, in order
    frameNum,     \* main: number of the next input file
    pc,           \* "main" | "loop" | "drawn" | "done" | "fatal" | "panic",
                  \* and "line" | "traced" for the rasterizer on its own
    img,          \* sketch: the target, converted to RGBA
    palette,      \* sketch: the drawable colours
    img1,         \* sketch: the trial buffer
    img2,         \* sketch: the best buffer
    i,            \* sketch: loop counter
    stati,        \* sketch: iterations since the last statistics line
    statc,        \* sketch: convergent iterations since the last statistics line
    seg,          \* sketch: <<x1, y1, x2, y2>> of the current iteration
    path          \* the coordinates the line traversal visits for seg

vars == <<iterLimit, frameStart, frameLimit, lineLen, palletize, saveInterval,
          statInterval, incrSaveNum, saveNum, inputs, written, frameNum, pc,
          img, palette, img1, img2, i, stati, statc, seg, path>>

flags == <<iterLimit, frameStart, frameLimit, lineLen, palletize, saveInterval,
           statInterval>>

----------------------------------------------------------------------------
(* Bounds of the model *)

MaxIter == 3     \* iterations of one frame that are explored
MaxFiles == 3    \* consecutive input files on disk
MaxW == 2        \* widest image of the palette scenarios
MaxH == 2        \* tallest image of the palette scenarios
MaxCoord == 3    \* endpoints of the rasterizer scenarios lie in -MaxCoord..MaxCoord

(* i%50 at line 357 *)
PollEvery == 50

----------------------------------------------------------------------------
(* Colours and images *)

Range(s) == {s[k] : k \in 1..Len(s)}

\* bg := color.RGBA{0, 0, 0, 255}
bg == <<0, 0, 0, 255>>

\* color.RGBAModel.Convert: the 16-bit channels of the source colour, >> 8
Convert(c) == [k \in 1..4 |-> c[k] \div 256]

\* color.RGBA.RGBA(): each 8-bit channel v becomes v | v<<8
RGBA(c) == [k \in 1..4 |-> c[k] * 257]

Coords(w, h) == (0..(w - 1)) \X (0..(h - 1))

InBounds(im, x, y) == x >= 0 /\ x < im.w /\ y >= 0 /\ y < im.h

\* image.RGBA.At: the zero colour outside the bounds
At(im, x, y) == IF InBounds(im, x, y) THEN im.pix[<<x, y>>] ELSE <<0, 0, 0, 0>>

\* image.RGBA.Set: no effect outside the bounds
Set(im, x, y, c) ==
    IF InBounds(im, x, y) THEN [im EXCEPT !.pix[<<x, y>>] = c] ELSE im

\* draw.Draw(dst, dst.Bounds(), &image.Uniform{c}, image.ZP, draw.Src)
Uniform(w, h, c) == [w |-> w, h |-> h, pix |-> [p \in Coords(w, h) |-> c]]

\* lines 301-308: the source converted pixel by pixel
ConvertImage(src) ==
    [w |-> src.w, h |-> src.h,
     pix |-> [p \in Coords(src.w, src.h) |-> Convert(src.pix[p])]]

----------------------------------------------------------------------------
(* The line traversal shared by bdiff (lines 53-145) and bcopy (170-262) *)

\* lines 98-106 and 109-117: dx steps along x; y moves by sy when e < 0
RECURSIVE StepX(_, _, _, _, _, _, _)
StepX(n, x, y, e, dy2, slope, sy) ==
    IF n = 0 THEN <<>>
    ELSE LET e1 == e - dy2
         IN <<<<x, y>>>> \o
            (IF e1 < 0 THEN StepX(n - 1, x + 1, y + sy, e1 + slope, dy2, slope, sy)
                       ELSE StepX(n - 1, x + 1, y, e1, dy2, slope, sy))

\* lines 123-131 and 134-142: dy steps along y; x moves by 1 when e < 0
RECURSIVE StepY(_, _, _, _, _, _, _)
StepY(n, x, y, e, dx2, slope, sy) ==
    IF n = 0 THEN <<>>
    ELSE LET e1 == e - dx2
         IN <<<<x, y>>>> \o
            (IF e1 < 0 THEN StepY(n - 1, x + 1, y + sy, e1 + slope, dx2, slope, sy)
                       ELSE StepY(n - 1, x, y + sy, e1, dx2, slope, sy))

\* The vertical case without the exchange of lines 72-74
VerticalNoSwap(x1, y1, y2, dy) ==
    [k \in 1..(dy + 1) |-> <<x1, y1 + (k - 1)>>]

\* case x1 == x2 (lines 71-79)
Vertical(x1, y1, y2, dy) ==
    LET lo == IF y1 > y2 THEN y2 ELSE y1
    IN [k \in 1..(dy + 1) |-> <<x1, lo + (k - 1)>>]

\* The switch of line 62, entered with x1 <= x2
Switch(x1, y1, x2, y2) ==
    LET dx == x2 - x1
        dy == IF y2 - y1 < 0 THEN -(y2 - y1) ELSE y2 - y1
        sy == IF y1 < y2 THEN 1 ELSE -1
    IN IF x1 = x2 /\ y1 = y2 THEN <<<<x1, y1>>>>
       ELSE IF y1 = y2 THEN [k \in 1..(dx + 1) |-> <<x1 + (k - 1), y1>>]
       ELSE IF x1 = x2 THEN Vertical(x1, y1, y2, dy)
       ELSE IF dx = dy THEN [k \in 1..(dx + 1) |-> <<x1 + (k - 1), y1 + sy * (k - 1)>>]
       ELSE IF dx > dy
            THEN Append(StepX(dx, x1, y1, dx, 2 * dy, 2 * dx, sy), <<x2, y2>>)
            ELSE Append(StepY(dy, x1, y1, dy, 2 * dx, 2 * dy, sy), <<x2, y2>>)

\* The coordinates visited, in order, for the segment s = <<x1, y1, x2, y2>>
Line(s) ==
    IF s[1] > s[3] THEN Switch(s[3], s[4], s[1], s[2])
                   ELSE Switch(s[1], s[2], s[3], s[4])

----------------------------------------------------------------------------
(* Scoring and copying *)

\* 16-bit source colours; sRed and sRedish convert to the same RGBA colour
sRed == <<771, 0, 0, 65535>>
sRedish == <<800, 0, 0, 65535>>
sGreen == <<0, 1028, 0, 65535>>

Abs(n) == IF n < 0 THEN -n ELSE n
Min(m, n) == IF m < n THEN m ELSE n
Max(m, n) == IF m > n THEN m ELSE n

\* math.Sqrt(n) on a perfect square n, by bisection between lo and hi.  Every
\* distance between two colours of the scenarios is a perfect square, so the
\* float64 sums of bdiff are exact integers.
RECURSIVE Sqrt(_, _, _)
Sqrt(n, lo, hi) ==
    IF lo >= hi THEN lo
    ELSE LET mid == (lo + hi + 1) \div 2
         IN IF mid * mid <= n THEN Sqrt(n, mid, hi) ELSE Sqrt(n, lo, mid - 1)

\* calcdiff (lines 149-165); the root lies between the largest channel
\* difference and the sum of the four (46340 is the largest root whose square
\* fits 32 bits)
calcdiff(a, b, x, y) ==
    LET ca == RGBA(At(a, x, y))
        cb == RGBA(At(b, x, y))
        R == (cb[1] - ca[1]) * (cb[1] - ca[1])
        G == (cb[2] - ca[2]) * (cb[2] - ca[2])
        B == (cb[3] - ca[3]) * (cb[3] - ca[3])
        A == (cb[4] - ca[4]) * (cb[4] - ca[4])
        d == [k \in 1..4 |-> Abs(cb[k] - ca[k])]
    IN Sqrt(R + G + B + A,
            Max(Max(d[1], d[2]), Max(d[3], d[4])),
            Min(d[1] + d[2] + d[3] + d[4], 46340))

RECURSIVE SumDiff(_, _, _, _)
SumDiff(a, b, p, k) ==
    IF k > Len(p) THEN 0
    ELSE calcdiff(a, b, p[k][1], p[k][2]) + SumDiff(a, b, p, k + 1)

\* bdiff scoring every coordinate but the final one
bdiffNoEnd(a, b, s) == SumDiff(a, b, SubSeq(Line(s), 1, Len(Line(s)) - 1), 1)

\* bdiff (lines 49-147)
bdiff(a, b, s) == SumDiff(a, b, Line(s), 1)

RECURSIVE CopyAlong(_, _, _, _)
CopyAlong(im, src, p, k) ==
    IF k > Len(p) THEN im
    ELSE CopyAlong(Set(im, p[k][1], p[k][2], At(src, p[k][1], p[k][2])), src, p, k + 1)

\* bcopy without the final img.Set
bcopyNoEnd(im, src, s) == CopyAlong(im, src, SubSeq(Line(s), 1, Len(Line(s)) - 1), 1)

\* bcopy (lines 167-263)
bcopy(im, src, s) == CopyAlong(im, src, Line(s), 1)

RECURSIVE Plot(_, _, _, _)
Plot(im, p, c, k) ==
    IF k > Len(p) THEN im ELSE Plot(Set(im, p[k][1], p[k][2], c), p, c, k + 1)

\* bresenham.Bresenham(img1, x1, y1, x2, y2, clr) (line 347): the imported
\* routine whose traversal bdiff and bcopy reproduce
Bresenham(im, s, c) == Plot(im, Line(s), c, 1)

\* the test of line 349 with <= for <
ConvergesOrEqual(target, trial, best, s) == bdiff(target, trial, s) <= bdiff(target, best, s)

\* line 349
Converges(target, trial, best, s) == bdiff(target, trial, s) < bdiff(target, best, s)

----------------------------------------------------------------------------
(* The palette (lines 310-323) *)

\* the y/x loops of lines 312-323 from pixel number n on; acc is the palette
\* so far, whose colours are the keys of palettemap
RECURSIVE Scan(_, _, _, _)
Scan(im, dedup, n, acc) ==
    IF n >= im.w * im.h THEN acc
    ELSE LET c == At(im, n % im.w, n \div im.w)
         IN IF dedup /\ c \in Range(acc)
            THEN Scan(im, dedup, n + 1, acc)
            ELSE Scan(im, dedup, n + 1, Append(acc, c))

\* the palette built with the -p branch never taken
BuildPaletteNoDedup(im, dedup) == Scan(im, FALSE, 0, <<>>)

BuildPalette(im, dedup) == Scan(im, dedup, 0, <<>>)

----------------------------------------------------------------------------
(* Input files and scenarios *)

NoImage == Uniform(0, 0, bg)

\* an input file that image.Decode accepts, and one it rejects
Decodable(im) == [ok |-> TRUE, image |-> im]
Corrupt == [ok |-> FALSE, image |-> NoImage]

Images(w, h, C) == {[w |-> w, h |-> h, pix |-> f] : f \in [Coords(w, h) -> C]}

\* width and height of the targets of the canvas scenarios
CanvasSize == <<2, 2>>

\* the file input_NNN.png for NNN = n
File(n) ==
    IF n - frameStart + 1 \in 1..Len(inputs) THEN inputs[n - frameStart + 1]
    ELSE [ok |-> FALSE, image |-> NoImage]
Exists(n) == n - frameStart + 1 \in 1..Len(inputs)

\* time.Duration(interval) * time.Second, in seconds: the float is truncated
Duration(ms) == IF ms >= 0 THEN ms \div 1000 ELSE -((-ms) \div 1000)

Started ==
    /\ incrSaveNum = 1
    /\ saveNum = 1
    /\ written = <<>>
    /\ frameNum = frameStart
    /\ pc = "main"
    /\ img = NoImage
    /\ palette = <<>>
    /\ img1 = NoImage
    /\ img2 = NoImage
    /\ i = 0
    /\ stati = 0
    /\ statc = 0
    /\ seg = <<0, 0, 0, 0>>
    /\ path = <<>>

\* one frame of two colours, lines long enough for every branch of the traversal
CanvasScenario ==
    /\ iterLimit = MaxIter
    /\ frameStart = 1
    /\ frameLimit = 0
    /\ lineLen = 4
    /\ palletize = TRUE
    /\ saveInterval = -1000
    /\ statInterval = 0
    /\ inputs \in {<<Decodable(im)>> :
                     im \in Images(CanvasSize[1], CanvasSize[2], {sRed, sGreen})}

\* one frame of any size up to MaxW x MaxH, empty ones included
PaletteScenario ==
    /\ frameStart = 1
    /\ frameLimit = 0
    /\ lineLen = 2
    /\ palletize \in BOOLEAN
    /\ saveInterval = -1000
    /\ statInterval = 1000
    /\ \E w \in 0..MaxW, h \in 0..MaxH :
          /\ inputs \in {<<Decodable(im)>> : im \in Images(w, h, {sRed, sRedish, sGreen})}
          /\ iterLimit \in IF w * h = 0 THEN -1..MaxIter ELSE {0}

\* several one-pixel frames, the last of which may fail to decode
DriverScenario ==
    /\ iterLimit \in {0, 1}
    /\ frameStart \in {1, 3}
    /\ frameLimit \in 0..(MaxFiles - 1)
    /\ lineLen = 1
    /\ palletize = FALSE
    /\ saveInterval \in {-1000, 500, 1000}
    /\ statInterval = 1000
    /\ \E n \in 0..MaxFiles, lastOk \in BOOLEAN :
          inputs = [k \in 1..n |-> IF k = n /\ ~lastOk THEN Corrupt
                                    ELSE Decodable(Uniform(1, 1, sRed))]

\* long or unbounded loops over one-pixel frames: the poll of line 357 recurs
PollScenario ==
    /\ iterLimit \in {-1, PollEvery + 1}
    /\ frameStart = 1
    /\ frameLimit = 0
    /\ lineLen = 1
    /\ palletize = FALSE
    /\ saveInterval \in {-1000, 0, 500, 1000}
    /\ statInterval \in {0, 1000}
    /\ \E n \in 1..Min(MaxFiles, 2) :
          inputs = [k \in 1..n |-> Decodable(Uniform(1, 1, sRed))]

Init ==
    /\ CanvasScenario \/ PaletteScenario \/ DriverScenario \/ PollScenario
    /\ Started

----------------------------------------------------------------------------
(* main (lines 381-411) *)

\* lines 392-394
FrameLimitReached ==
    /\ pc = "main"
    /\ frameLimit > 1 /\ frameNum - frameStart > frameLimit
    /\ pc' = "done"
    /\ UNCHANGED <<flags, incrSaveNum, saveNum, inputs, written, frameNum, img,
                   palette, img1, img2, i, stati, statc, seg, path>>

LimitPassed == ~(frameLimit > 1 /\ frameNum - frameStart > frameLimit)

\* lines 396-401: os.Open fails
NoMoreInput ==
    /\ pc = "main"
    /\ LimitPassed
    /\ ~Exists(frameNum)
    /\ frameNum' = frameNum + 1
    /\ pc' = "done"
    /\ UNCHANGED <<flags, incrSaveNum, saveNum, inputs, written, img,
                   palette, img1, img2, i, stati, statc, seg, path>>

\* lines 402-405: image.Decode fails
DecodeFailed ==
    /\ pc = "main"
    /\ LimitPassed
    /\ Exists(frameNum) /\ ~File(frameNum).ok
    /\ frameNum' = frameNum + 1
    /\ pc' = "fatal"
    /\ UNCHANGED <<flags, incrSaveNum, saveNum, inputs, written, img,
                   palette, img1, img2, i, stati, statc, seg, path>>

\* lines 396-408 and 297-335: the frame is decoded and sketch runs up to its loop
SketchBegin ==
    /\ pc = "main"
    /\ LimitPassed
    /\ Exists(frameNum) /\ File(frameNum).ok
    /\ frameNum' = frameNum + 1
    /\ LET src == File(frameNum).image
           target == ConvertImage(src)
       IN /\ img' = target
          /\ palette' = BuildPalette(target, palletize)
          /\ img1' = Uniform(src.w, src.h, bg)
          /\ img2' = Uniform(src.w, src.h, bg)
    /\ i' = 0
    /\ stati' = 0
    /\ statc' = 0
    /\ seg' = <<0, 0, 0, 0>>
    /\ path' = <<>>
    /\ pc' = "loop"
    /\ UNCHANGED <<flags, incrSaveNum, saveNum, inputs, written>>

----------------------------------------------------------------------------
(* sketch: the optimizer loop (lines 337-379) *)

\* the loop condition of line 337 with <= for <
LoopCondInclusive(n, limit) == n <= limit \/ limit < 0

\* line 337
LoopCond(n, limit) == n < limit \/ limit < 0

\* rand.Intn(n) panics for n <= 0; palette[...] needs an entry
CanDraw == img.w > 0 /\ img.h > 0 /\ lineLen > 0 /\ Len(palette) > 0

\* lines 357-374 when the save is due but incrSaveNum is not advanced
PollNoIncr(best, si, sc) ==
    IF i % PollEvery = 0
    THEN /\ \E elapsed \in IF Duration(saveInterval) <= 0 THEN {TRUE} ELSE BOOLEAN :
               IF saveInterval > 0 /\ elapsed
               THEN /\ written' = Append(written, [kind |-> "incr", num |-> incrSaveNum,
                                                    image |-> best])
                    /\ incrSaveNum' = incrSaveNum
               ELSE UNCHANGED <<written, incrSaveNum>>
         /\ \E elapsed \in IF Duration(statInterval) <= 0 THEN {TRUE} ELSE BOOLEAN :
               IF elapsed THEN stati' = 0 /\ statc' = 0
                          ELSE stati' = si /\ statc' = sc
    ELSE /\ UNCHANGED <<written, incrSaveNum>>
         /\ stati' = si /\ statc' = sc

\* lines 357-374: every PollEvery-th iteration the clock is read; best is img2,
\* si and sc the counters after lines 338 and 352.  A duration is at least a
\* zero interval; whether it reaches a positive one is the clock's choice.
Poll(best, si, sc) ==
    IF i % PollEvery = 0
    THEN /\ \E elapsed \in IF Duration(saveInterval) <= 0 THEN {TRUE} ELSE BOOLEAN :
               IF saveInterval > 0 /\ elapsed
               THEN /\ written' = Append(written, [kind |-> "incr", num |-> incrSaveNum,
                                                    image |-> best])
                    /\ incrSaveNum' = incrSaveNum + 1
               ELSE UNCHANGED <<written, incrSaveNum>>
         /\ \E elapsed \in IF Duration(statInterval) <= 0 THEN {TRUE} ELSE BOOLEAN :
               IF elapsed THEN stati' = 0 /\ statc' = 0
                          ELSE stati' = si /\ statc' = sc
    ELSE /\ UNCHANGED <<written, incrSaveNum>>
         /\ stati' = si /\ statc' = sc

\* lines 338-347: a segment and a colour are drawn and the line is plotted
\* on the trial buffer
Draw ==
    /\ pc = "loop"
    /\ LoopCond(i, iterLimit)
    /\ iterLimit < 0 => i < MaxIter
    /\ CanDraw
    /\ \E x1 \in 0..(img.w - 1), y1 \in 0..(img.h - 1),
          ox \in 0..(lineLen - 1), oy \in 0..(lineLen - 1),
          c \in 1..Len(palette) :
          LET x2 == -(lineLen \div 2) + x1 + ox
              y2 == -(lineLen \div 2) + y1 + oy
          IN /\ seg' = <<x1, y1, x2, y2>>
             /\ path' = Line(seg')
             /\ img1' = Bresenham(img1, seg', palette[c])
    /\ stati' = stati + 1
    /\ pc' = "drawn"
    /\ UNCHANGED <<flags, incrSaveNum, saveNum, inputs, written, frameNum, img,
                   palette, img2, i, statc>>

\* lines 349-375: the line is kept or undone, the clock is polled, and the
\* iteration's x1, y1, x2, y2 go out of scope
Resolve ==
    /\ pc = "drawn"
    /\ IF Converges(img, img1, img2, seg)
       THEN /\ img2' = bcopy(img2, img1, seg)
            /\ img1' = img1
            /\ Poll(img2', stati, statc + 1)
       ELSE /\ img1' = bcopy(img1, img2, seg)
            /\ img2' = img2
            /\ Poll(img2', stati, statc)
    /\ i' = i + 1
    /\ seg' = <<0, 0, 0, 0>>
    /\ path' = <<>>
    /\ pc' = "loop"
    /\ UNCHANGED <<flags, saveNum, inputs, frameNum, img, palette>>

\* lines 338-345 when a draw is impossible: stati is advanced, then rand.Intn
\* or the palette index panics
IteratePanics ==
    /\ pc = "loop"
    /\ LoopCond(i, iterLimit)
    /\ ~CanDraw
    /\ stati' = stati + 1
    /\ pc' = "panic"
    /\ UNCHANGED <<flags, incrSaveNum, saveNum, inputs, written, frameNum, img,
                   palette, img1, img2, i, statc, seg, path>>

\* lines 377-378 with saveNum left as it is
SketchEndNoIncr ==
    /\ pc = "loop"
    /\ ~LoopCond(i, iterLimit)
    /\ written' = Append(written, [kind |-> "frame", num |-> saveNum, image |-> img2])
    /\ saveNum' = saveNum
    /\ pc' = "main"
    /\ UNCHANGED <<flags, incrSaveNum, inputs, frameNum, img, palette, img1,
                   img2, i, stati, statc, seg, path>>

\* lines 377-379: the loop is over, the frame is saved, sketch returns
SketchEnd ==
    /\ pc = "loop"
    /\ ~LoopCond(i, iterLimit)
    /\ written' = Append(written, [kind |-> "frame", num |-> saveNum, image |-> img2])
    /\ saveNum' = saveNum + 1
    /\ pc' = "main"
    /\ UNCHANGED <<flags, incrSaveNum, inputs, frameNum, img, palette, img1,
                   img2, i, stati, statc, seg, path>>

Next ==
    \/ FrameLimitReached
    \/ NoMoreInput
    \/ DecodeFailed
    \/ SketchBegin
    \/ Draw
    \/ Resolve
    \/ IteratePanics
    \/ SketchEnd

Spec == Init /\ [][Next]_vars

----------------------------------------------------------------------------
(* The rasterizer on its own: any two endpoints of a bounded region *)

InitLine ==
    /\ iterLimit = 0
    /\ frameStart = 1
    /\ frameLimit = 0
    /\ lineLen = 1
    /\ palletize = FALSE
    /\ saveInterval = -1000
    /\ statInterval = 1000
    /\ inputs = <<>>
    /\ incrSaveNum = 1
    /\ saveNum = 1
    /\ written = <<>>
    /\ frameNum = 1
    /\ pc = "line"
    /\ img = NoImage
    /\ palette = <<>>
    /\ img1 = NoImage
    /\ img2 = NoImage
    /\ i = 0
    /\ stati = 0
    /\ statc = 0
    /\ seg \in (-MaxCoord..MaxCoord) \X (-MaxCoord..MaxCoord)
                 \X (-MaxCoord..MaxCoord) \X (-MaxCoord..MaxCoord)
    /\ path = <<>>

\* the traversal of bdiff and bcopy for the endpoints seg
Rasterize ==
    /\ pc = "line"
    /\ path' = Line(seg)
    /\ pc' = "traced"
    /\ UNCHANGED <<flags, incrSaveNum, saveNum, inputs, written, frameNum, img,
                   palette, img1, img2, i, stati, statc, seg>>

NextLine == Rasterize

SpecLine == InitLine /\ [][NextLine]_vars

----------------------------------------------------------------------------
(* Properties *)

\* the pixels of im in row-major order
RowMajor(im) == [n \in 1..(im.w * im.h) |-> im.pix[<<(n - 1) % im.w, (n - 1) \div im.w>>]]

Colours(im) == {im.pix[p] : p \in Coords(im.w, im.h)}

\* the difference of two images summed over every pixel
RECURSIVE TotalFrom(_, _, _)
TotalFrom(a, b, n) ==
    IF n >= a.w * a.h THEN 0
    ELSE calcdiff(a, b, n % a.w, n \div a.w) + TotalFrom(a, b, n + 1)

Total(a, b) == TotalFrom(a, b, 0)

Frames == SelectSeq(written, LAMBDA f : f.kind = "frame")
Incrs == SelectSeq(written, LAMBDA f : f.kind = "incr")

\* sketch has returned to main's loop
Returned == pc = "main" /\ frameNum > frameStart

InSketch == pc \in {"loop", "drawn", "panic"}

\* C1: in every iteration, if the trial scores strictly lower than the best
\* buffer along the iteration's path, the difference between target and best
\* along that path is strictly lower after the iteration than before it;
\* otherwise best is left pixel for pixel as it was.
C1_AcceptMonotone ==
    [][pc = "drawn" =>
         IF bdiff(img, img1, seg) < bdiff(img, img2, seg)
         THEN bdiff(img', img2', seg) < bdiff(img, img2, seg)
         ELSE img2' = img2]_vars

\* two iterations polled away from the statistics reset: one kept, one undone
C1_Witness == pc = "loop" /\ i = 3 /\ stati = 2 /\ statc = 1

\* C2: at every iteration boundary the trial and the best buffer are equal at
\* every coordinate; between the plot and the decision they differ at most on
\* the path of the iteration, whose endpoints may lie outside the image.
C2_BuffersAgree ==
    /\ pc \in {"main", "loop", "done"} => img1 = img2
    /\ pc = "drawn" =>
         /\ img1.w = img2.w /\ img1.h = img2.h
         /\ \A p \in Coords(img2.w, img2.h) :
               p \notin Range(path) => img1.pix[p] = img2.pix[p]

\* after a kept and an undone line, a third is plotted that leaves the image
C2_Witness ==
    /\ pc = "drawn" /\ i = 2 /\ statc = 0
    /\ img2 # Uniform(img2.w, img2.h, bg)
    /\ img1 # img2
    /\ ~InBounds(img, seg[3], seg[4])

\* C3: with a frame limit N >= 1 at most N frames are sketched and saved.
C3_FrameLimitBoundsFrames == frameLimit >= 1 => Len(Frames) <= frameLimit

\* C4 as stated: the k-th finished frame (from 0) is saved as number S + k.
C4_NumberedFromStart == \A k \in 1..Len(Frames) : Frames[k].num = frameStart + (k - 1)

\* C4, amended: the k-th finished frame (from 0) is saved as number 1 + k,
\* whatever the starting frame number, and saveNum is the next such number.
C4_NumberedFromOne ==
    /\ \A k \in 1..Len(Frames) : Frames[k].num = k
    /\ saveNum = Len(Frames) + 1

\* two frames finished after a start at input number 3
C4_Witness == frameStart = 3 /\ Len(Frames) = 2 /\ Frames[2].num = 2

\* C5: on a target without pixels no iteration is entered: no counter is
\* advanced and nothing fails inside the loop.
C5_EmptyRejectedBeforeLoop ==
    (InSketch /\ img.w * img.h = 0) => (stati = 0 /\ pc # "panic")

\* C6: with a budget N >= 0 the loop never passes N iterations; sketch returns
\* only after exactly N of them, having written one frame snapshot per call,
\* which holds the best buffer (the plain background for N = 0); with a
\* negative budget no frame is ever finished.
C6_Budget ==
    /\ (iterLimit >= 0 /\ InSketch) => i <= iterLimit
    /\ (iterLimit >= 0 /\ pc = "drawn") => i < iterLimit
    /\ InSketch => Len(Frames) = frameNum - frameStart - 1
    /\ Returned =>
         /\ i = iterLimit
         /\ Len(Frames) = frameNum - frameStart
         /\ written[Len(written)] = [kind |-> "frame", num |-> saveNum - 1, image |-> img2]
         /\ iterLimit = 0 => img2 = Uniform(img.w, img.h, bg)
    /\ iterLimit < 0 => (Len(Frames) = 0 /\ ~Returned)

\* a frame finished after three iterations that changed it
C6_Witness ==
    /\ Returned /\ iterLimit = 3 /\ i = 3
    /\ img2 # Uniform(img2.w, img2.h, bg)

\* C7: the traversal visits both endpoints, and consecutive coordinates differ
\* by at most 1 in x and at most 1 in y.
C7_LineConnected ==
    pc = "traced" =>
        /\ Len(path) >= 1
        /\ {path[1], path[Len(path)]} = {<<seg[1], seg[2]>>, <<seg[3], seg[4]>>}
        /\ \A k \in 1..(Len(path) - 1) :
              /\ Abs(path[k + 1][1] - path[k][1]) <= 1
              /\ Abs(path[k + 1][2] - path[k][2]) <= 1

\* a shallow line given from its higher-x end, stepped by the error term
C7_Witness ==
    /\ pc = "traced" /\ seg[1] - seg[3] = 3 /\ seg[4] - seg[2] = 2
    /\ Len(path) = 4

\* C8: with -p the palette has no repeated entry, as many entries as the
\* target has colours, in the order a row-major scan first meets them;
\* without -p it is the row-major sequence of all pixels.
C8_Palette ==
    IF palletize
    THEN /\ \A j, k \in 1..Len(palette) : j # k => palette[j] # palette[k]
         /\ Len(palette) = Cardinality(Colours(img))
         /\ Range(palette) = Colours(img)
         /\ \A j, k \in 1..Len(palette) :
               j < k =>
                 \E n \in 1..(img.w * img.h) :
                    /\ RowMajor(img)[n] = palette[j]
                    /\ \A m \in 1..n : RowMajor(img)[m] # palette[k]
    ELSE palette = RowMajor(img)

\* four pixels of two colours, the second colour first met at the third pixel
C8_Witness ==
    /\ palletize /\ img.w = 2 /\ img.h = 2 /\ Len(palette) = 2
    /\ RowMajor(img)[1] = RowMajor(img)[2] /\ RowMajor(img)[3] # RowMajor(img)[1]

\* C9: the incremental snapshots carry the numbers 1, 2, 3, ... in the order
\* they are written, across frames, apart from the numbers of the finished
\* frames; none is written with a save interval <= 0.
C9_IncrNumbering ==
    /\ \A k \in 1..Len(Incrs) : Incrs[k].num = k
    /\ incrSaveNum = Len(Incrs) + 1
    /\ saveInterval <= 0 => Len(Incrs) = 0

\* the second frame's second incremental snapshot, the fourth of the process
C9_Witness ==
    /\ Len(Incrs) = 4 /\ Len(Frames) = 1 /\ InSketch
    /\ written[Len(written)].kind = "incr"

\* C10: within a frame the difference between target and best summed over the
\* whole image never grows; it falls on every iteration whose trial scores
\* strictly lower and stays as it is on every other; the scored path has no
\* repeated coordinate.
C10_TotalNeverWorse ==
    [][/\ pc = "loop" => Total(img', img2') = Total(img, img2)
       /\ pc = "drawn" => \A j, k \in 1..Len(path) : j # k => path[j] # path[k]
       /\ pc = "drawn" =>
            IF bdiff(img, img1, seg) < bdiff(img, img2, seg)
            THEN Total(img', img2') < Total(img, img2)
            ELSE Total(img', img2') = Total(img, img2)]_vars

\* a best buffer equal to the target, reached through kept lines
C10_Witness == pc = "loop" /\ i = 3 /\ img2 = img /\ statc = 2

====
